---- MODULE Spec2Model ----
(***************************************************************************)
(* Model of ImapIdleHandler (src/src/lib/idle.py): the worker thread that  *)
(* keeps an IMAP session in IDLE mode, parses the server's notifications,  *)
(* fetches the envelope of a new message over a second session and hands   *)
(* it to the callback, with its retry / backoff / error-budget policy.     *)
(*                                                                         *)
(* The worker thread is a sequential process; pc is the blocking call or   *)
(* flag check it is about to execute.  stop() runs on the controller's     *)
(* thread and interleaves with every step of the worker.  Every call to a  *)
(* collaborator (connector, IMAP client, callback, sleep) is one step      *)
(* whose outcome (return value or exception) is chosen nondeterministically*)
(* and which also runs the non-blocking code that follows the call up to   *)
(* the next blocking call or flag check.                                   *)
(***************************************************************************)
EXTENDS Integers, Sequences, FiniteSets, TLC

(***************************************************************************)
(* Bounds of the model.                                                    *)
(***************************************************************************)
MaxBudget == 1      \* MAX_IMAP_ERROR_COUNT is drawn from 0..MaxBudget
MaxFail   == 3      \* at most MaxFail consecutive failures are injected
MaxTime   == 2      \* the clock time() runs from 0 to MaxTime
MaxTag    == 2      \* numeric tags of notification pairs are 0..MaxTag
MaxLen    == 3      \* notification lists of the parser check have <= MaxLen entries

(***************************************************************************)
(* Python values.  None and optional results: None is the empty tuple, a   *)
(* present value x is <<x>>.                                               *)
(***************************************************************************)
None    == << >>
Some(x) == << x >>

\* Python truthiness of an optional integer (`if not message_nr`): None and 0
\* are falsy.
Truthy(v) == v # None /\ v # Some(0)

(***************************************************************************)
(* Raw notifications.  A Python value is a record of its type and items:   *)
(* a response is a list of entries (or not a list at all), an entry is a   *)
(* tuple (tag, keyword, ...) or something that is not a tuple.             *)
(***************************************************************************)
Tags     == 0 .. MaxTag
Keywords == {"EXISTS", "RECENT", "FETCH"}

PyTuple(items) == [type |-> "tuple", items |-> items]
PyList(items)  == [type |-> "list", items |-> items]
NotATuple      == [type |-> "bytes", items |-> << >>]
NotAList       == [type |-> "NoneType", items |-> << >>]

Entries ==
    {NotATuple, PyTuple(<< >>)}
        \cup {PyTuple(<<t>>) : t \in Tags}
        \cup {PyTuple(<<t, k>>) : t \in Tags, k \in Keywords}
        \cup {PyTuple(<<t, k, "x">>) : t \in Tags, k \in Keywords}

SeqsUpTo(S, n) == UNION {[1 .. m -> S] : m \in 0 .. n}

AllResponses == {NotAList} \cup {PyList(s) : s \in SeqsUpTo(Entries, MaxLen)}

\* The strict branch of __get_new_message_number (ignoreRecentFlag == False),
\* mutated: the order RECENT, EXISTS is not recognised.
strict_branch_no_swap(responses) ==
    IF responses.type # "list" THEN None
    ELSE IF Len(responses.items) < 2 THEN None
    ELSE LET response1 == responses.items[1]
             response2 == responses.items[2]
         IN  IF response1.type # "tuple" THEN None
             ELSE IF Len(response1.items) < 2 THEN None
             ELSE IF response2.type # "tuple" THEN None
             ELSE IF Len(response2.items) < 2 THEN None
             ELSE IF response1.items[2] = "EXISTS" /\ response2.items[2] = "RECENT"
                  THEN Some(response1.items[1])
             ELSE None

\* The strict branch, mutated: for the order RECENT, EXISTS the tag of the
\* first pair is returned.
strict_branch_wrong_tag(responses) ==
    IF responses.type # "list" THEN None
    ELSE IF Len(responses.items) < 2 THEN None
    ELSE LET response1 == responses.items[1]
             response2 == responses.items[2]
         IN  IF response1.type # "tuple" THEN None
             ELSE IF Len(response1.items) < 2 THEN None
             ELSE IF response2.type # "tuple" THEN None
             ELSE IF Len(response2.items) < 2 THEN None
             ELSE IF response1.items[2] = "EXISTS" /\ response2.items[2] = "RECENT"
                  THEN Some(response1.items[1])
             ELSE IF response2.items[2] = "EXISTS" /\ response1.items[2] = "RECENT"
                  THEN Some(response1.items[1])
             ELSE None

\* The strict branch of __get_new_message_number (ignoreRecentFlag == False).
\* Python indexes from 0, TLA+ from 1: response1[1] is response1.items[2].
strict_branch(responses) ==
    IF responses.type # "list" THEN None
    ELSE IF Len(responses.items) < 2 THEN None
    ELSE LET response1 == responses.items[1]
             response2 == responses.items[2]
         IN  IF response1.type # "tuple" THEN None
             ELSE IF Len(response1.items) < 2 THEN None
             ELSE IF response2.type # "tuple" THEN None
             ELSE IF Len(response2.items) < 2 THEN None
             ELSE IF response1.items[2] = "EXISTS" /\ response2.items[2] = "RECENT"
                  THEN Some(response1.items[1])
             ELSE IF response2.items[2] = "EXISTS" /\ response1.items[2] = "RECENT"
                  THEN Some(response2.items[1])
             ELSE None

\* The relaxed branch, mutated: the keyword of the first pair is not looked at.
relaxed_branch_any_keyword(responses) ==
    IF responses.type # "list" THEN None
    ELSE IF Len(responses.items) < 1 THEN None
    ELSE LET response1 == responses.items[1]
         IN  IF response1.type # "tuple" THEN None
             ELSE IF Len(response1.items) < 2 THEN None
             ELSE Some(response1.items[1])

\* The relaxed branch of __get_new_message_number (ignoreRecentFlag == True).
relaxed_branch(responses) ==
    IF responses.type # "list" THEN None
    ELSE IF Len(responses.items) < 1 THEN None
    ELSE LET response1 == responses.items[1]
         IN  IF response1.type # "tuple" THEN None
             ELSE IF Len(response1.items) < 2 THEN None
             ELSE IF response1.items[2] = "EXISTS"
                  THEN Some(response1.items[1])
             ELSE None

get_new_message_number(responses, ignoreRecent) ==
    IF ignoreRecent = FALSE
    THEN strict_branch(responses)
    ELSE relaxed_branch(responses)

\* The notifications the server sends to the worker in the state machine
\* (what client.idle_check returns): nothing on timeout, or a list of pairs.
WorkerResponses ==
    { PyList(<< >>),
      PyList(<<PyTuple(<<1, "EXISTS">>), PyTuple(<<1, "RECENT">>)>>),
      PyList(<<PyTuple(<<1, "RECENT">>), PyTuple(<<2, "EXISTS">>)>>),
      PyList(<<PyTuple(<<0, "EXISTS">>), PyTuple(<<0, "RECENT">>)>>),
      PyList(<<PyTuple(<<2, "EXISTS">>)>>),
      PyList(<<PyTuple(<<1, "FETCH", "x">>)>>) }

\* `if not responses: return` - an empty list is falsy.
NoResponses(responses) == responses.type # "list" \/ Len(responses.items) = 0


(***************************************************************************)
(* State.                                                                  *)
(***************************************************************************)
VARIABLES
    MAX_IMAP_ERROR_COUNT,         \* class attribute, fixed for a run
    SECONDS_TO_WAIT_AFTER_ERROR,  \* class attribute, fixed for a run
    SECONDS_TO_RECONNECT_AFTER,   \* class attribute, fixed for a run
    ignoreRecentFlag,             \* self.__ignoreRecentFlag
    thread_stopped,               \* self.__thread_stopped
    connected_at,                 \* self.__connected_at
    imap_error_count,             \* self.__imap_error_count
    pc,                           \* position of the worker thread
    leave_reason,                 \* how the last primary session is being left
    client,                       \* the primary session and the last command issued on it
    fetch_client,                 \* the secondary session of __get_message_envelope
    responses,                    \* local of __idle_loop
    message_nr,                   \* local of __idle_loop
    envelope,                     \* local of __idle_loop
    now,                          \* the clock read by time()
    failures,                     \* history: consecutive failures since the last successful check cycle
    stop_observed,                \* history: a stop-flag check has read the flag as set
    gave_up,                      \* history: 'Leaving the thread after %s errors.' was logged
    delivered,                    \* history: envelopes passed to the callback in the current check cycle
    logged,                       \* history: what the check cycle just run has logged (lines 237, 318, 323, 329)
    since_stop                    \* history: calls begun while the stop flag was set

config == <<MAX_IMAP_ERROR_COUNT, SECONDS_TO_WAIT_AFTER_ERROR,
            SECONDS_TO_RECONNECT_AFTER, ignoreRecentFlag>>

locals == <<responses, message_nr, envelope, delivered>>

vars == <<MAX_IMAP_ERROR_COUNT, SECONDS_TO_WAIT_AFTER_ERROR,
          SECONDS_TO_RECONNECT_AFTER, ignoreRecentFlag, thread_stopped,
          connected_at, imap_error_count, pc, leave_reason, client,
          fetch_client, responses, message_nr, envelope, now, failures,
          stop_observed, gave_up, delivered, logged, since_stop>>

\* Values the tunables are drawn from: 0 switches the feature off.
WaitChoices      == {0, 1}
ReconnectChoices == {0, 1}

NoCalls ==
    [connects |-> 0, waits |-> 0, delivers |-> 0, sleeps |-> 0, logouts |-> 0]

\* A call of kind f begins: it is counted when the stop flag is already set.
Count(f) ==
    IF thread_stopped
    THEN [since_stop EXCEPT ![f] = IF @ < 2 THEN @ + 1 ELSE @]
    ELSE since_stop

\* State after __init__ (lines 58-78); the thread is not started yet.
Init ==
    /\ MAX_IMAP_ERROR_COUNT \in 0 .. MaxBudget
    /\ SECONDS_TO_WAIT_AFTER_ERROR \in WaitChoices
    /\ SECONDS_TO_RECONNECT_AFTER \in ReconnectChoices
    /\ ignoreRecentFlag \in BOOLEAN
    /\ thread_stopped = FALSE
    /\ connected_at = None
    /\ imap_error_count = 0
    /\ pc = "unstarted"
    /\ leave_reason = "none"
    /\ client = "None"
    /\ fetch_client = "None"
    /\ responses = PyList(<< >>)
    /\ message_nr = None
    /\ envelope = None
    /\ now = 0
    /\ failures = 0
    /\ stop_observed = FALSE
    /\ gave_up = FALSE
    /\ delivered = << >>
    /\ logged = "none"
    /\ since_stop = NoCalls

(***************************************************************************)
(* The error budget (the duplicated code of lines 123-127 and 141-145).    *)
(***************************************************************************)

\* Mutant: the thread is left when the counter reaches the budget.
error_budget_reached(c) ==
    IF MAX_IMAP_ERROR_COUNT > 0
    THEN [count |-> c + 1, leave |-> c + 1 >= MAX_IMAP_ERROR_COUNT]
    ELSE [count |-> c, leave |-> FALSE]

\* Mutant: the budget is applied also when it is configured as 0.
error_budget_unguarded(c) ==
    [count |-> c + 1, leave |-> c + 1 > MAX_IMAP_ERROR_COUNT]

\* The counter after an error and whether the thread is left.
error_budget(c) ==
    IF MAX_IMAP_ERROR_COUNT > 0
    THEN [count |-> c + 1, leave |-> c + 1 > MAX_IMAP_ERROR_COUNT]
    ELSE [count |-> c, leave |-> FALSE]

\* Where the connection-failure branch goes (lines 125-133): return, sleep or
\* continue.
after_connect_failure(b) ==
    IF b.leave THEN "done"
    ELSE IF SECONDS_TO_WAIT_AFTER_ERROR > 0 THEN "sleep_connect"
    ELSE "idle_top"

\* Mutant: the return of line 145 leaves the thread without the finally
\* clause.
after_idle_failure_no_finally(b) ==
    IF b.leave THEN "done"
    ELSE IF SECONDS_TO_WAIT_AFTER_ERROR > 0 THEN "sleep_idle"
    ELSE "logout"

\* Where the IDLE-failure branch goes (lines 143-159): return or continue run
\* the finally clause (logout) last, after the sleep.
after_idle_failure(b) ==
    IF b.leave THEN "logout_exit"
    ELSE IF SECONDS_TO_WAIT_AFTER_ERROR > 0 THEN "sleep_idle"
    ELSE "logout"

(***************************************************************************)
(* The controller's operations and the clock.                              *)
(***************************************************************************)

\* start(): the thread begins to run __idle.
start ==
    /\ pc = "unstarted"
    /\ pc' = "idle_top"
    /\ UNCHANGED <<config, logged, thread_stopped, connected_at, imap_error_count,
                   leave_reason, client, fetch_client, locals, now, failures,
                   stop_observed, gave_up, since_stop>>

\* stop(): sets the flag, nothing else.
stop ==
    /\ thread_stopped = FALSE
    /\ thread_stopped' = TRUE
    /\ UNCHANGED <<config, logged, connected_at, imap_error_count, pc, leave_reason,
                   client, fetch_client, locals, now, failures, stop_observed,
                   gave_up, since_stop>>

\* A second passes.
Tick ==
    /\ now < MaxTime
    /\ now' = now + 1
    /\ UNCHANGED <<config, logged, thread_stopped, connected_at, imap_error_count, pc,
                   leave_reason, client, fetch_client, locals, failures,
                   stop_observed, gave_up, since_stop>>


(***************************************************************************)
(* The worker thread: __idle (lines 101-159).                              *)
(***************************************************************************)

\* Mutant: the loop of __idle does not look at the stop flag.
idle_stop_check_missing == FALSE

\* Line 110: `if self.__thread_stopped`.
idle_stop_check == thread_stopped

\* Lines 109-112: the top of the endless loop.
idle_top ==
    /\ pc = "idle_top"
    /\ IF idle_stop_check
       THEN /\ pc' = "done"
            /\ stop_observed' = TRUE
       ELSE /\ pc' = "connect"
            /\ UNCHANGED stop_observed
    /\ UNCHANGED <<config, logged, thread_stopped, connected_at, imap_error_count,
                   leave_reason, client, fetch_client, locals, now, failures,
                   gave_up, since_stop>>

\* Lines 114-118: connector.connect returns the primary session.
connect_ok ==
    /\ pc = "connect"
    /\ client' = "open"
    /\ pc' = "idle_client"
    /\ leave_reason' = "none"
    /\ since_stop' = Count("connects")
    /\ UNCHANGED <<config, logged, thread_stopped, connected_at, imap_error_count,
                   fetch_client, locals, now, failures, stop_observed,
                   gave_up>>

\* Lines 119-133: connector.connect raises.
connect_failed ==
    /\ pc = "connect"
    /\ failures < MaxFail
    /\ failures' = failures + 1
    /\ LET b == error_budget(imap_error_count)
       IN  /\ imap_error_count' = b.count
           /\ gave_up' = b.leave
           /\ pc' = after_connect_failure(b)
    /\ leave_reason' = "none"
    /\ since_stop' = Count("connects")
    /\ UNCHANGED <<config, logged, thread_stopped, connected_at, client, fetch_client,
                   locals, now, stop_observed>>

\* Line 130: sleep after a connection failure, then `continue`.
sleep_after_connect_failure ==
    /\ pc = "sleep_connect"
    /\ pc' = "idle_top"
    /\ since_stop' = Count("sleeps")
    /\ UNCHANGED <<config, logged, thread_stopped, connected_at, imap_error_count,
                   leave_reason, client, fetch_client, locals, now, failures,
                   stop_observed, gave_up>>

\* Line 148: sleep after an IDLE failure; the finally clause (logout) runs
\* after it, on `continue`.
sleep_after_idle_failure ==
    /\ pc = "sleep_idle"
    /\ pc' = "logout"
    /\ since_stop' = Count("sleeps")
    /\ UNCHANGED <<config, logged, thread_stopped, connected_at, imap_error_count,
                   leave_reason, client, fetch_client, locals, now, failures,
                   stop_observed, gave_up>>

\* Lines 153-159: the finally clause; client.logout returns or raises, and the
\* exception is swallowed.  Then the loop continues, or the thread returns.
logout ==
    /\ pc \in {"logout", "logout_exit"}
    /\ \E ok \in BOOLEAN :
          client' = IF ok THEN "closed" ELSE "logout_failed"
    /\ pc' = IF pc = "logout_exit" THEN "done" ELSE "idle_top"
    /\ since_stop' = Count("logouts")
    /\ UNCHANGED <<config, logged, thread_stopped, connected_at, imap_error_count,
                   leave_reason, fetch_client, locals, now, failures,
                   stop_observed, gave_up>>

(***************************************************************************)
(* __idle_client (lines 161-210).                                          *)
(***************************************************************************)

\* Mutant: the stop check sits inside the try block of lines 182-210, so that
\* its return runs client.idle_done().
idle_client_return_in_try == "idle_done"

\* Line 172: the return precedes the try block; the caller's finally clause
\* (logout) is what runs next.
idle_client_return == "logout"

\* Lines 171-172: `if self.__thread_stopped: return`.
idle_client_entry ==
    /\ pc = "idle_client"
    /\ IF thread_stopped
       THEN /\ pc' = idle_client_return
            /\ leave_reason' = "stop"
            /\ stop_observed' = TRUE
       ELSE /\ pc' = "enter_idle"
            /\ UNCHANGED <<leave_reason, stop_observed>>
    /\ UNCHANGED <<config, logged, thread_stopped, connected_at, imap_error_count,
                   client, fetch_client, locals, now, failures, gave_up,
                   since_stop>>

\* Lines 175-178: the timestamp is taken and client.idle() returns.
enter_idle_ok ==
    /\ pc = "enter_idle"
    /\ connected_at' = Some(now)
    /\ client' = "idle"
    /\ pc' = "idle_loop_top"
    /\ UNCHANGED <<config, logged, thread_stopped, imap_error_count, leave_reason,
                   fetch_client, locals, now, failures, stop_observed, gave_up,
                   since_stop>>

\* Lines 175-180, 137-151: client.idle() raises; the exception leaves
\* __idle_client before its try/finally, so idle_done is not called.
enter_idle_failed ==
    /\ pc = "enter_idle"
    /\ failures < MaxFail
    /\ failures' = failures + 1
    /\ connected_at' = Some(now)
    /\ client' = "idle_failed"
    /\ leave_reason' = "error"
    /\ LET b == error_budget(imap_error_count)
       IN  /\ imap_error_count' = b.count
           /\ gave_up' = b.leave
           /\ pc' = after_idle_failure(b)
    /\ UNCHANGED <<config, logged, thread_stopped, fetch_client, locals, now,
                   stop_observed, since_stop>>

\* Mutant: the age of the session is never looked at.
reconnect_due_never(age) == FALSE

\* Lines 189-191: the session is older than the threshold.
reconnect_due(age) ==
    /\ SECONDS_TO_RECONNECT_AFTER > 0
    /\ age > SECONDS_TO_RECONNECT_AFTER

\* Mutant: the stop check of the loop reads the flag but does not break.
idle_loop_decision_no_break ==
    IF reconnect_due(now - connected_at[1]) THEN "renew"
    ELSE "wait"

\* Lines 184-193: what the top of the loop of __idle_client decides.
idle_loop_decision ==
    IF thread_stopped THEN "stop"
    ELSE IF reconnect_due(now - connected_at[1]) THEN "renew"
    ELSE "wait"

\* Lines 184-193: stop check and forced reconnection, else the next cycle.
idle_loop_top ==
    /\ pc = "idle_loop_top"
    /\ stop_observed' = (stop_observed \/ thread_stopped)
    /\ IF idle_loop_decision = "wait"
       THEN /\ pc' = "idle_check"
            /\ UNCHANGED leave_reason
       ELSE /\ pc' = "idle_done"
            /\ leave_reason' = idle_loop_decision
    /\ logged' = "none"
    /\ UNCHANGED <<config, thread_stopped, connected_at, imap_error_count,
                   client, fetch_client, locals, now, failures, gave_up,
                   since_stop>>

\* Lines 204-210, then the caller: client.idle_done() returns or raises (the
\* exception is swallowed).  A pending exception reaches the handler of
\* lines 137-151; otherwise __idle_client returns and the finally clause of
\* __idle runs.
idle_done ==
    /\ pc = "idle_done"
    /\ \E ok \in BOOLEAN :
          client' = IF ok THEN "idle_ended" ELSE "idle_end_failed"
    /\ IF leave_reason = "error"
       THEN LET b == error_budget(imap_error_count)
            IN  /\ imap_error_count' = b.count
                /\ gave_up' = b.leave
                /\ pc' = after_idle_failure(b)
       ELSE /\ pc' = "logout"
            /\ UNCHANGED <<imap_error_count, gave_up>>
    /\ UNCHANGED <<config, logged, thread_stopped, connected_at, leave_reason,
                   fetch_client, locals, now, failures, stop_observed,
                   since_stop>>


(***************************************************************************)
(* One check cycle: __idle_loop (lines 212-237) called at line 196, and    *)
(* __get_message_envelope (lines 300-338).                                 *)
(***************************************************************************)

\* Mutant: the counter is left alone after a check cycle.
count_after_cycle_kept(c) == c

\* Line 197: __idle_loop returned, `self.__imap_error_count = 0`.
count_after_cycle(c) == 0

\* __idle_loop returns without raising: line 197, and back to the loop top.
cycle_done ==
    /\ imap_error_count' = count_after_cycle(imap_error_count)
    /\ failures' = 0
    /\ pc' = "idle_loop_top"

\* Line 225: `if not message_nr: return`.
qualifies(nr) == Truthy(nr)

\* Lines 219-227: client.idle_check returns (nothing on timeout, or a
\* notification); the notification is parsed.
idle_check_returns ==
    /\ pc = "idle_check"
    /\ \E r \in WorkerResponses :
          /\ responses' = r
          /\ message_nr' = IF NoResponses(r) THEN None
                           ELSE get_new_message_number(r, ignoreRecentFlag)
          /\ IF ~NoResponses(r) /\ qualifies(message_nr')
             THEN /\ pc' = "fetch_connect"
                  /\ UNCHANGED <<imap_error_count, failures>>
             ELSE cycle_done
    /\ envelope' = None
    /\ delivered' = << >>
    /\ since_stop' = Count("waits")
    /\ UNCHANGED <<config, logged, thread_stopped, connected_at, leave_reason, client,
                   fetch_client, now, stop_observed, gave_up>>

\* Lines 219, 202-203: client.idle_check raises; 'IDLE check failed.' is
\* raised through the finally clause of __idle_client.
idle_check_raises ==
    /\ pc = "idle_check"
    /\ failures < MaxFail
    /\ failures' = failures + 1
    /\ leave_reason' = "error"
    /\ pc' = "idle_done"
    /\ responses' = PyList(<< >>)
    /\ message_nr' = None
    /\ envelope' = None
    /\ delivered' = << >>
    /\ since_stop' = Count("waits")
    /\ UNCHANGED <<config, logged, thread_stopped, connected_at, imap_error_count,
                   client, fetch_client, now, stop_observed, gave_up>>

\* Lines 198-201: the wait is interrupted from the keyboard.
idle_check_interrupted ==
    /\ pc = "idle_check"
    /\ thread_stopped' = TRUE
    /\ leave_reason' = "interrupt"
    /\ pc' = "idle_done"
    /\ responses' = PyList(<< >>)
    /\ message_nr' = None
    /\ envelope' = None
    /\ delivered' = << >>
    /\ since_stop' = Count("waits")
    /\ UNCHANGED <<config, logged, connected_at, imap_error_count, client,
                   fetch_client, now, failures, stop_observed, gave_up>>

\* Lines 309-314: the secondary session is opened.
fetch_connect_ok ==
    /\ pc = "fetch_connect"
    /\ fetch_client' = "open"
    /\ pc' = "fetch"
    /\ UNCHANGED <<config, logged, thread_stopped, connected_at, imap_error_count,
                   leave_reason, client, locals, now, failures, stop_observed,
                   gave_up, since_stop>>

\* Lines 311, 328-338, 231-232: opening the secondary session raises; there
\* is no session to log out, None is returned and the cycle ends.
fetch_connect_failed ==
    /\ pc = "fetch_connect"
    /\ fetch_client' = "None"
    /\ envelope' = None
    /\ logged' = "connection_failed"
    /\ cycle_done
    /\ UNCHANGED <<config, thread_stopped, connected_at, leave_reason, client,
                   responses, message_nr, delivered, now, stop_observed,
                   gave_up, since_stop>>

\* What client.fetch can do.
FetchOutcomes == {"raise", "no_data", "no_envelope", "envelope"}

\* Mutant: the result is not checked for the ENVELOPE key.
fetch_result_unchecked(outcome, nr) ==
    IF outcome \in {"envelope", "no_envelope"} THEN Some(nr[1]) ELSE None

\* Lines 316-330: the result of __get_message_envelope for a fetch outcome;
\* the envelope of message n is written <<n>>.
fetch_result(outcome, nr) ==
    IF outcome = "envelope" THEN Some(nr[1]) ELSE None

\* Lines 318, 323, 329: what __get_message_envelope logs for a fetch outcome.
fetch_log(outcome) ==
    IF outcome = "raise" THEN "fetch_failed"
    ELSE IF outcome = "envelope" THEN "none"
    ELSE outcome

\* Mutant: there is no finally clause, a fetch that raises skips the logout.
after_fetch_call_no_finally(outcome) ==
    IF outcome = "raise" THEN "idle_loop_top" ELSE "fetch_logout"

\* Lines 332-338: every way out of the try block runs the finally clause.
after_fetch_call(outcome) == "fetch_logout"

\* Lines 316-330: client.fetch on the secondary session.
fetch ==
    /\ pc = "fetch"
    /\ \E outcome \in FetchOutcomes :
          /\ envelope' = fetch_result(outcome, message_nr)
          /\ logged' = fetch_log(outcome)
          /\ IF after_fetch_call(outcome) = "fetch_logout"
             THEN /\ pc' = "fetch_logout"
                  /\ UNCHANGED <<imap_error_count, failures>>
             ELSE cycle_done
    /\ UNCHANGED <<config, thread_stopped, connected_at, leave_reason, client,
                   fetch_client, responses, message_nr, delivered, now,
                   stop_observed, gave_up, since_stop>>

\* Lines 332-338, 231-232: the secondary session is logged out (an exception
\* is swallowed); without an envelope the cycle ends.
fetch_logout ==
    /\ pc = "fetch_logout"
    /\ \E ok \in BOOLEAN :
          fetch_client' = IF ok THEN "closed" ELSE "logout_failed"
    /\ IF envelope # None
       THEN /\ pc' = "dispatch"
            /\ UNCHANGED <<imap_error_count, failures>>
       ELSE cycle_done
    /\ UNCHANGED <<config, logged, thread_stopped, connected_at, leave_reason, client,
                   locals, now, stop_observed, gave_up, since_stop>>

\* Mutant: the call of the callback is not wrapped in try/except.
callback_error_uncaught(ok) == ~ok

\* Lines 236-237: an exception of the callback is caught and logged, it does
\* not leave __idle_loop.
callback_error_propagates(ok) == FALSE

\* Lines 234-237: callback.trigger_new_message_command(envelope) returns or
\* raises; the exception is logged only.
dispatch ==
    /\ pc = "dispatch"
    /\ delivered' = Append(delivered, envelope)
    /\ since_stop' = Count("delivers")
    /\ \E ok \in BOOLEAN :
          /\ logged' = IF ok THEN "none" ELSE "callback_failed"
          /\ IF callback_error_propagates(ok)
             THEN /\ failures' = failures + 1
                  /\ leave_reason' = "error"
                  /\ pc' = "idle_done"
                  /\ UNCHANGED imap_error_count
             ELSE /\ cycle_done
                  /\ UNCHANGED leave_reason
    /\ UNCHANGED <<config, thread_stopped, connected_at, client, fetch_client,
                   responses, message_nr, envelope, now, stop_observed,
                   gave_up>>

(***************************************************************************)
(* Specifications.                                                         *)
(***************************************************************************)

\* The steps of the worker thread.
Worker ==
    \/ idle_top
    \/ connect_ok
    \/ connect_failed
    \/ sleep_after_connect_failure
    \/ sleep_after_idle_failure
    \/ logout
    \/ idle_client_entry
    \/ enter_idle_ok
    \/ enter_idle_failed
    \/ idle_loop_top
    \/ idle_done
    \/ idle_check_returns
    \/ idle_check_raises
    \/ idle_check_interrupted
    \/ fetch_connect_ok
    \/ fetch_connect_failed
    \/ fetch
    \/ fetch_logout
    \/ dispatch

Next == start \/ stop \/ Tick \/ Worker

Spec == Init /\ [][Next]_vars

\* The thread is scheduled and every blocking call returns or raises: a
\* worker step that stays possible is eventually taken.
FairSpec == Spec /\ WF_vars(Worker)


(***************************************************************************)
(* The Response Parser on its own: every notification list up to MaxLen    *)
(* entries, in both modes, is given to __get_new_message_number.           *)
(***************************************************************************)

ParserInit ==
    /\ MAX_IMAP_ERROR_COUNT = 0
    /\ SECONDS_TO_WAIT_AFTER_ERROR = 0
    /\ SECONDS_TO_RECONNECT_AFTER = 0
    /\ ignoreRecentFlag \in BOOLEAN
    /\ thread_stopped = FALSE
    /\ connected_at = None
    /\ imap_error_count = 0
    /\ pc = "parse"
    /\ leave_reason = "none"
    /\ client = "None"
    /\ fetch_client = "None"
    /\ responses \in AllResponses
    /\ message_nr = None
    /\ envelope = None
    /\ now = 0
    /\ failures = 0
    /\ stop_observed = FALSE
    /\ gave_up = FALSE
    /\ delivered = << >>
    /\ logged = "none"
    /\ since_stop = NoCalls

\* Line 224: message_nr = self.__get_new_message_number(responses, flag).
parse ==
    /\ pc = "parse"
    /\ message_nr' = get_new_message_number(responses, ignoreRecentFlag)
    /\ pc' = "parsed"
    /\ UNCHANGED <<config, logged, thread_stopped, connected_at, imap_error_count,
                   leave_reason, client, fetch_client, responses, envelope,
                   delivered, now, failures, stop_observed, gave_up,
                   since_stop>>

ParserNext == parse

ParserSpec == ParserInit /\ [][ParserNext]_vars

(***************************************************************************)
(* Properties.                                                             *)
(***************************************************************************)

\* The worker has not started a further connection attempt and will not:
\* the failure is on its way to the handler, or the thread is returning.
NoFurtherAttempt ==
    \/ pc = "idle_done" /\ leave_reason = "error"
    \/ pc \in {"logout_exit", "done"}

\* C1 as stated: with a budget N > 0 the worker has given up once N
\* consecutive failures have occurred, so that after the N-th failure no
\* further connection attempt is made.
C1_GivesUpAtBudget ==
    (MAX_IMAP_ERROR_COUNT > 0 /\ failures >= MAX_IMAP_ERROR_COUNT)
        => NoFurtherAttempt

\* C1 amended: with a budget N > 0 the worker gives up exactly when the
\* (N+1)-th consecutive failure occurs: the number of consecutive failures
\* never exceeds N + 1, the thread is left only with N + 1 of them, after the
\* (N+1)-th no further connection attempt is made, and with N or fewer the
\* thread exits only on a stop request.
C1_GivesUpWhenBudgetExceeded ==
    MAX_IMAP_ERROR_COUNT > 0 =>
        /\ failures <= MAX_IMAP_ERROR_COUNT + 1
        /\ gave_up => failures = MAX_IMAP_ERROR_COUNT + 1
        /\ failures = MAX_IMAP_ERROR_COUNT + 1 => NoFurtherAttempt
        /\ pc \in {"logout_exit", "done"} => (gave_up \/ thread_stopped)

C1_Witness ==
    /\ MAX_IMAP_ERROR_COUNT = MaxBudget
    /\ failures = MaxBudget + 1
    /\ gave_up
    /\ pc = "done"
    /\ ~thread_stopped

\* C2: with budget 0 the worker never gives up: the thread has exited only
\* if the stop flag is set, and every failure leads to the backoff sleep
\* (or, with a sleep of 0 seconds, directly to the retry), never to a return.
C2_NeverGivesUpWithoutBudget ==
    /\ [](MAX_IMAP_ERROR_COUNT = 0 =>
            /\ ~gave_up
            /\ pc # "logout_exit"
            /\ pc = "done" => thread_stopped)
    /\ [][(MAX_IMAP_ERROR_COUNT = 0 /\ failures' > failures) =>
            pc' \in (IF SECONDS_TO_WAIT_AFTER_ERROR > 0
                     THEN {"sleep_connect", "sleep_idle", "idle_done"}
                     ELSE {"idle_top", "logout", "idle_done"})]_vars
    /\ [][(MAX_IMAP_ERROR_COUNT = 0 /\ pc = "idle_done"
              /\ leave_reason = "error" /\ pc' # pc) =>
            pc' = (IF SECONDS_TO_WAIT_AFTER_ERROR > 0
                   THEN "sleep_idle" ELSE "logout")]_vars

C2_Witness ==
    /\ MAX_IMAP_ERROR_COUNT = 0
    /\ failures = MaxFail
    /\ pc = "connect"
    /\ ~thread_stopped

\* C3 as stated: once the stop flag is set the worker begins no backoff
\* sleep and no new primary-session establishment.
C3_NoSleepNoConnectAfterStop ==
    thread_stopped => (since_stop.sleeps = 0 /\ since_stop.connects = 0)

\* C3 amended: once the stop flag is set the worker begins at most one
\* further notification wait or one further primary-session establishment
\* (never both), at most one backoff sleep and at most one teardown of the
\* primary session before the thread exits.
C3_BoundedWorkAfterStop ==
    /\ since_stop.waits + since_stop.connects <= 1
    /\ since_stop.sleeps <= 1
    /\ since_stop.logouts <= 1

C3_Witness ==
    /\ thread_stopped
    /\ pc = "done"
    /\ since_stop.connects = 1
    /\ since_stop.sleeps = 1

\* C4: once stop() has been called on a started worker, the thread
\* eventually exits, whatever it was doing and whatever the budget.
C4_StopLeadsToExit ==
    (thread_stopped /\ pc # "unstarted") ~> (pc = "done")

C4_Witness ==
    /\ thread_stopped
    /\ pc = "done"
    /\ ~gave_up
    /\ since_stop.logouts = 1
    /\ client = "closed"

\* A notification wait, and a call of the callback, is a step of the worker.
WaitStep    == pc = "idle_check" /\ pc' # "idle_check"
DeliverStep == pc = "dispatch" /\ pc' # "dispatch"

\* C5: once a stop-flag check has read the flag as set, there is no later
\* notification wait and no later call of the callback.
C5_NothingDispatchedAfterStopObserved ==
    [][stop_observed => (~WaitStep /\ ~DeliverStep /\ delivered' = delivered)]_vars

C5_Witness ==
    /\ stop_observed
    /\ pc = "done"
    /\ Len(delivered) = 1
    /\ since_stop.delivers = 1

\* The sequence numbers a notification signals: the tags paired with EXISTS.
Signaled(r) ==
    {r.items[i].items[1] : i \in {j \in 1 .. Len(r.items) :
        /\ r.items[j].type = "tuple"
        /\ Len(r.items[j].items) >= 2
        /\ r.items[j].items[2] = "EXISTS"}}

\* C6: in a check cycle the callback is called once, with the envelope of
\* the returned number, if the parser returned a number and the fetcher an
\* envelope, and not at all otherwise; it is never called for a number that
\* was not signaled; and the next wait begins only after the call.
C6_OneDeliverPerQualifyingCycle ==
    /\ [](Len(delivered) =
            IF /\ message_nr # None
               /\ envelope # None
               /\ pc \notin {"fetch_logout", "dispatch"}
            THEN 1 ELSE 0)
    /\ [](delivered # << >> =>
            /\ delivered[1] = Some(message_nr[1])
            /\ message_nr[1] \in Signaled(responses))
    /\ [][WaitStep => pc \notin {"fetch_connect", "fetch", "fetch_logout", "dispatch"}]_vars
    /\ [][pc = "dispatch" => (pc' = "dispatch" \/ (DeliverStep /\ pc' = "idle_loop_top"))]_vars

C6_Witness ==
    /\ pc = "idle_check"
    /\ delivered = <<Some(2)>>
    /\ responses = PyList(<<PyTuple(<<1, "RECENT">>), PyTuple(<<2, "EXISTS">>)>>)

\* The age of the primary session, read at the top of the loop.
SessionAge == now - connected_at[1]

\* C7 as stated: whenever the worker is about to wait, is not stopped and
\* the session is older than the configured threshold, it leaves IDLE
\* instead of waiting.
C7_RenewsWheneverOlderThanThreshold ==
    [][(/\ pc = "idle_loop_top"
        /\ ~thread_stopped
        /\ SessionAge > SECONDS_TO_RECONNECT_AFTER
        /\ pc' # pc) => pc' = "idle_done"]_vars

\* C7 amended: with a positive threshold, a worker that is about to wait, is
\* not stopped and whose session is older than the threshold leaves IDLE,
\* logs out and goes back to connecting (unless stop is requested first),
\* with the error counter unchanged and without a backoff sleep.
C7_RenewsWhenOlderThanPositiveThreshold ==
    /\ [][(/\ pc = "idle_loop_top"
           /\ ~thread_stopped
           /\ SECONDS_TO_RECONNECT_AFTER > 0
           /\ SessionAge > SECONDS_TO_RECONNECT_AFTER
           /\ pc' # pc) =>
             (pc' = "idle_done" /\ leave_reason' = "renew")]_vars
    /\ [](leave_reason = "renew" =>
             pc \in {"idle_done", "logout", "idle_top", "connect", "done"})
    /\ [][leave_reason = "renew" =>
             /\ imap_error_count' = imap_error_count
                    \/ (pc = "connect" /\ failures' > failures)
             /\ pc = "idle_done" /\ pc' # pc => pc' = "logout"
             /\ pc = "logout" /\ pc' # pc => pc' = "idle_top"
             /\ (pc = "idle_top" /\ pc' # pc /\ ~thread_stopped)
                    => pc' = "connect"]_vars

C7_Witness ==
    /\ leave_reason = "renew"
    /\ pc = "connect"
    /\ imap_error_count = 1
    /\ ~thread_stopped

\* A check cycle ends without raising: __idle_loop returns to line 197.
CycleEndStep ==
    /\ pc \in {"idle_check", "fetch_connect", "fetch_logout", "dispatch"}
    /\ pc' = "idle_loop_top"

\* C8: the error counter is 0 right after every check cycle that completes
\* without raising, and no other step resets or lowers it.
C8_CounterResetExactlyByCycle ==
    [][/\ CycleEndStep => imap_error_count' = 0
       /\ imap_error_count' < imap_error_count => CycleEndStep]_vars

C8_Witness ==
    /\ pc = "idle_loop_top"
    /\ imap_error_count = 0
    /\ MAX_IMAP_ERROR_COUNT = MaxBudget
    /\ responses = PyList(<<PyTuple(<<1, "FETCH", "x">>)>>)
    /\ gave_up = FALSE
    /\ leave_reason = "none"

\* A pair, as the parser accepts it: a tuple of at least two items.
IsPair(e) == e.type = "tuple" /\ Len(e.items) >= 2

\* C9, what strict mode is to return: the tag paired with EXISTS when the
\* first two entries are pairs, one EXISTS and the other RECENT.
StrictExpected(r) ==
    IF /\ r.type = "list"
       /\ Len(r.items) >= 2
       /\ IsPair(r.items[1])
       /\ IsPair(r.items[2])
       /\ {r.items[1].items[2], r.items[2].items[2]} = {"EXISTS", "RECENT"}
    THEN Some((CHOOSE e \in {r.items[1], r.items[2]} :
                  e.items[2] = "EXISTS").items[1])
    ELSE None

\* The first two entries of a notification list.
FirstTwo(r) ==
    IF r.type = "list" /\ Len(r.items) > 2
    THEN PyList(SubSeq(r.items, 1, 2))
    ELSE r

\* C9: in strict mode the parser returns the tag paired with EXISTS exactly
\* when the list has two leading pairs, one EXISTS and one RECENT in either
\* order, and nothing otherwise; entries after the second do not matter.
C9_StrictParser ==
    (pc = "parsed" /\ ignoreRecentFlag = FALSE) =>
        /\ message_nr = StrictExpected(responses)
        /\ message_nr = StrictExpected(FirstTwo(responses))

C9_Witness ==
    /\ pc = "parsed"
    /\ ignoreRecentFlag = FALSE
    /\ responses = PyList(<<PyTuple(<<1, "RECENT">>), PyTuple(<<2, "EXISTS">>),
                            PyTuple(<<0, "EXISTS">>)>>)
    /\ message_nr = Some(2)

\* C10, what relaxed mode is to return: the first pair's tag when its
\* keyword is EXISTS.
RelaxedExpected(r) ==
    IF /\ r.type = "list"
       /\ Len(r.items) >= 1
       /\ IsPair(r.items[1])
       /\ r.items[1].items[2] = "EXISTS"
    THEN Some(r.items[1].items[1])
    ELSE None

\* C10: in relaxed mode the parser returns the first pair's tag exactly when
\* the list is non-empty and the first pair's keyword is EXISTS, and nothing
\* otherwise (a leading RECENT pair included).
C10_RelaxedParser ==
    (pc = "parsed" /\ ignoreRecentFlag = TRUE) =>
        message_nr = RelaxedExpected(responses)

C10_Witness ==
    /\ pc = "parsed"
    /\ ignoreRecentFlag = TRUE
    /\ responses = PyList(<<PyTuple(<<2, "EXISTS">>)>>)
    /\ message_nr = Some(2)


\* What the Envelope Fetcher logs when it has nothing to return.
FetchErrors == {"connection_failed", "fetch_failed", "no_data", "no_envelope"}

\* Nothing keeps the loop of __idle_client from starting the next wait.
NextWaitDue == ~thread_stopped /\ ~reconnect_due(SessionAge)

\* C11: a fetch error (the secondary session cannot be opened, the fetch
\* raises, the server returns no result or no envelope) is contained: the
\* fetcher returns nothing, the callback is not called in that cycle, the
\* error counter is not incremented, and the worker goes on to the next wait
\* on the same primary session, still in IDLE.
C11_FetchErrorContained ==
    /\ [](logged \in FetchErrors =>
            /\ envelope = None
            /\ delivered = << >>
            /\ client = "idle"
            /\ leave_reason = "none"
            /\ pc \in {"fetch_logout", "idle_loop_top"})
    /\ [][(logged \in FetchErrors \/ logged' \in FetchErrors) =>
            /\ imap_error_count' <= imap_error_count
            /\ failures' <= failures
            /\ client' = client
            /\ ~DeliverStep]_vars
    /\ [][(logged \in FetchErrors /\ pc = "fetch_logout" /\ pc' # pc) =>
            pc' = "idle_loop_top"]_vars
    /\ [][(logged \in FetchErrors /\ pc = "idle_loop_top" /\ pc' # pc
              /\ NextWaitDue) =>
            pc' = "idle_check"]_vars

C11_Witness ==
    /\ logged = "fetch_failed"
    /\ pc = "idle_loop_top"
    /\ fetch_client = "closed"
    /\ message_nr = Some(2)
    /\ client = "idle"

\* C12: a dispatch error is contained: when the callback raises, the error
\* counter is not incremented, the primary session stays in IDLE, there is
\* no backoff, and the worker goes on to the next wait as after a successful
\* dispatch.
C12_DispatchErrorContained ==
    /\ [][(DeliverStep /\ logged' = "callback_failed") =>
            /\ pc' = "idle_loop_top"
            /\ imap_error_count' <= imap_error_count
            /\ failures' = 0
            /\ client = "idle"
            /\ client' = client
            /\ leave_reason' = leave_reason]_vars
    /\ [](logged = "callback_failed" =>
            /\ pc = "idle_loop_top"
            /\ client = "idle"
            /\ imap_error_count = 0)
    /\ [][(logged = "callback_failed" /\ pc' # pc /\ NextWaitDue) =>
            pc' = "idle_check"]_vars

C12_Witness ==
    /\ logged = "callback_failed"
    /\ pc = "idle_loop_top"
    /\ Len(delivered) = 1
    /\ client = "idle"

\* A failure that has occurred and is on its way to the handler of __idle,
\* which counts it (client.idle_done() runs in between).
Pending == IF pc = "idle_done" /\ leave_reason = "error" THEN 1 ELSE 0

\* C13 as stated: for every budget, 0 included, the error counter (with the
\* failure the handler is about to count) is the number of consecutive
\* failures since the last successful check cycle.
C13_CounterCountsFailures ==
    imap_error_count + Pending = failures

\* C13 amended: for every positive budget the error counter (with the
\* failure the handler is about to count) is the number of consecutive
\* connection and IDLE-cycle failures since the last successful check cycle,
\* and a successful connection does not reset it; with budget 0 nothing is
\* counted and the counter stays 0.
C13_CounterCountsFailuresWithBudget ==
    /\ [](IF MAX_IMAP_ERROR_COUNT > 0
          THEN imap_error_count + Pending = failures
          ELSE imap_error_count = 0)
    /\ [][(pc = "connect" /\ pc' = "idle_client") =>
            imap_error_count' = imap_error_count]_vars

C13_Witness ==
    /\ MAX_IMAP_ERROR_COUNT = MaxBudget
    /\ imap_error_count = 1
    /\ failures = 1
    /\ pc = "idle_loop_top"
    /\ client = "idle"


\* The primary session is logged out (attempted or done).
LoggedOut == {"closed", "logout_failed"}

\* The primary session has been opened and logout has not been attempted.
NotLoggedOut == {"open", "idle", "idle_failed", "idle_ended", "idle_end_failed"}

\* C14: after a protocol-cycle error the primary session is closed before
\* the backoff sleep: it is not open while the worker sleeps.
C14_SessionClosedBeforeBackoff ==
    pc = "sleep_idle" => client \in LoggedOut

\* client.logout() and client.idle_done() are steps of the worker.
LogoutStep   == pc \in {"logout", "logout_exit"} /\ pc' # pc
IdleDoneStep == pc = "idle_done" /\ pc' # pc

\* C15: every primary session that was opened has logout attempted exactly
\* once, on every way out, before the next connection attempt and before the
\* thread exits; a failing logout or IDLE-termination changes neither the
\* error counter nor the path taken.
C15_TeardownOnEveryPath ==
    /\ [](pc \in {"idle_top", "connect", "sleep_connect", "done"} =>
            client \notin NotLoggedOut)
    /\ [][LogoutStep =>
            /\ client \in NotLoggedOut
            /\ client' \in LoggedOut
            /\ imap_error_count' = imap_error_count
            /\ pc' = (IF pc = "logout_exit" THEN "done" ELSE "idle_top")]_vars
    /\ [][(client' \in LoggedOut /\ client' # client) => LogoutStep]_vars
    /\ [][IdleDoneStep =>
            IF leave_reason = "error"
            THEN /\ imap_error_count' = error_budget(imap_error_count).count
                 /\ pc' \in {"logout_exit", "sleep_idle", "logout"}
            ELSE /\ imap_error_count' = imap_error_count
                 /\ pc' = "logout"]_vars

C15_Witness ==
    /\ client = "logout_failed"
    /\ pc = "done"
    /\ gave_up
    /\ leave_reason = "error"

\* C16: a secondary session is open only inside a check cycle, between its
\* opening and its logout, while the primary session is in IDLE; the fetch
\* is issued on it and leaves the primary alone; and it is logged out before
\* the next notification wait begins.
C16_SecondaryScopedToFetch ==
    /\ [](fetch_client = "open" =>
            /\ pc \in {"fetch", "fetch_logout"}
            /\ client = "idle")
    /\ [](pc = "fetch" => fetch_client = "open")
    /\ [][(fetch_client' = "open" /\ fetch_client # "open") =>
            (pc = "fetch_connect" /\ client = "idle")]_vars
    /\ [][(pc \in {"fetch_connect", "fetch", "fetch_logout"}) =>
            (client' = client)]_vars
    /\ [][WaitStep => fetch_client # "open"]_vars

C16_Witness ==
    /\ fetch_client = "open"
    /\ pc = "fetch_logout"
    /\ logged = "fetch_failed"
    /\ client = "idle"

\* C17: on a primary session, waits occur only while it is in IDLE (after a
\* successful IDLE command, before IDLE-termination); IDLE-termination is
\* issued once, before logout, exactly on the sessions whose IDLE command
\* succeeded; and nothing is issued on a session after its logout.
C17_IdleProtocolOrder ==
    /\ [](pc \in {"idle_loop_top", "idle_check", "fetch_connect", "fetch",
                  "fetch_logout", "dispatch", "idle_done"} =>
            client = "idle")
    /\ [][WaitStep => client = "idle"]_vars
    /\ [][IdleDoneStep =>
            /\ client = "idle"
            /\ client' \in {"idle_ended", "idle_end_failed"}]_vars
    /\ [][(client' \in {"idle_ended", "idle_end_failed"} /\ client' # client)
            => IdleDoneStep]_vars
    /\ [][LogoutStep =>
            client \in {"open", "idle_failed", "idle_ended", "idle_end_failed"}]_vars
    /\ [](client \in LoggedOut =>
            pc \in {"idle_top", "connect", "sleep_connect", "done"})

C17_Witness ==
    /\ client = "idle_failed"
    /\ pc = "logout"
    /\ leave_reason = "error"

\* C18: between a call of stop() and the exit of the thread the worker makes
\* at most one primary connection attempt, at most one notification wait, at
\* most one call of the callback and at most one backoff sleep.
C18_AtMostOneOfEachAfterStop ==
    /\ since_stop.connects <= 1
    /\ since_stop.waits <= 1
    /\ since_stop.delivers <= 1
    /\ since_stop.sleeps <= 1

C18_Witness ==
    /\ thread_stopped
    /\ pc = "done"
    /\ since_stop.waits = 1
    /\ since_stop.sleeps = 1
    /\ since_stop.logouts = 1

\* C19: with a budget N > 0 the error counter stays within 0 .. N + 1 and is
\* N + 1 only when the worker has given up and is leaving the thread; with
\* budget 0 it is always 0.
C19_CounterBounded ==
    IF MAX_IMAP_ERROR_COUNT > 0
    THEN /\ imap_error_count \in 0 .. MAX_IMAP_ERROR_COUNT + 1
         /\ imap_error_count = MAX_IMAP_ERROR_COUNT + 1 =>
                (gave_up /\ pc \in {"logout_exit", "done"})
    ELSE imap_error_count = 0

C19_Witness ==
    /\ MAX_IMAP_ERROR_COUNT = MaxBudget
    /\ imap_error_count = MaxBudget + 1
    /\ pc = "logout_exit"

\* C20 as stated: whenever strict mode returns a number, relaxed mode returns
\* the same number for the same notification list.
C20_RelaxedAcceptsAllOfStrict ==
    (pc = "parsed" /\ ignoreRecentFlag = FALSE /\ message_nr # None) =>
        get_new_message_number(responses, TRUE) = message_nr

\* C20 amended: whenever strict mode returns a number n, relaxed mode returns
\* the same n if the first pair is the EXISTS pair, and nothing if the pairs
\* come in the order RECENT, EXISTS.
C20_RelaxedAcceptsStrictWhenExistsFirst ==
    (pc = "parsed" /\ ignoreRecentFlag = FALSE /\ message_nr # None) =>
        get_new_message_number(responses, TRUE) =
            IF responses.items[1].items[2] = "EXISTS"
            THEN message_nr
            ELSE None

C20_Witness ==
    /\ pc = "parsed"
    /\ ignoreRecentFlag = FALSE
    /\ responses = PyList(<<PyTuple(<<1, "EXISTS">>), PyTuple(<<0, "RECENT">>)>>)
    /\ message_nr = Some(1)

====
